---- MODULE Spec2Model ----
(***************************************************************************)
(* A model of serde-rusoto-dynamodb: the serializer of src/src/ser.rs and  *)
(* the deserializer of src/src/de.rs, which convert between Serde values   *)
(* and the Rusoto AttributeValue.                                          *)
(*                                                                         *)
(* Representation.                                                         *)
(*   Option<X>      a sequence of length <= 1: <<>> is None, <<x>> Some(x) *)
(*   String, &str   a sequence of one-character strings                    *)
(*   integer        its bytes in memory, little-endian, of the type's      *)
(*                  width (two's complement when signed)                   *)
(*   Vec<X>         a sequence                                             *)
(*   HashMap<K,V>   a function; its iteration order is unspecified         *)
(*   Result<X>      [ok |-> TRUE, val |-> x] or [ok |-> FALSE, err |-> m]  *)
(***************************************************************************)
EXTENDS Integers, Sequences, FiniteSets, TLC

\* ---------------------------------------------------------------------------
\* Bounds

\* longest string, sequence and map drawn as an input
MaxLen == 2

\* most calls made on one map reader: enough to read MaxLen entries and the
\* end of the map
MaxCalls == 5

\* most calls made on one map builder
MaxOps == 3

\* ---------------------------------------------------------------------------
\* Option and Result

None == <<>>

Some(x) == <<x>>

IsSome(o) == Len(o) = 1

Unwrap(o) == o[1]

Ok(x) == [ok |-> TRUE, val |-> x]

Err(msg) == [ok |-> FALSE, err |-> msg]

\* src/src/result.rs Error::new
Error_new(message) == Err(message)

\* <Error as serde::ser::Error>::custom and <Error as serde::de::Error>::custom
Error_custom(msg) == Err(msg)

Range(s) == {s[i] : i \in 1..Len(s)}

\* ---------------------------------------------------------------------------
\* Integers: width, signedness and the bytes of a value

IntTypes == {"i8", "i16", "i32", "i64", "u8", "u16", "u32", "u64"}

Width(ty) ==
  CASE ty \in {"i8", "u8"} -> 1
    [] ty \in {"i16", "u16"} -> 2
    [] ty \in {"i32", "u32"} -> 4
    [] ty \in {"i64", "u64"} -> 8

Signed(ty) == ty \in {"i8", "i16", "i32", "i64"}

Zeros(w) == [i \in 1..w |-> 0]

IsZero(bytes) == \A i \in 1..Len(bytes) : bytes[i] = 0

\* the sign bit of a byte sequence read as two's complement
TopBit(bytes) == bytes[Len(bytes)] >= 128

\* bytes + 1, wrapping at the width
RECURSIVE Increment(_, _)
Increment(bytes, i) ==
  IF i > Len(bytes) THEN bytes
  ELSE IF bytes[i] = 255 THEN Increment([bytes EXCEPT ![i] = 0], i + 1)
  ELSE [bytes EXCEPT ![i] = bytes[i] + 1]

\* (!bytes).wrapping_add(1)
WrappingNeg(bytes) == Increment([i \in 1..Len(bytes) |-> 255 - bytes[i]], 1)

\* bytes / 10 and bytes % 10, from the most significant byte down
RECURSIVE DivMod10(_, _, _)
DivMod10(bytes, i, rem) ==
  IF i = 0 THEN [q |-> bytes, r |-> rem]
  ELSE LET cur == rem * 256 + bytes[i]
       IN DivMod10([bytes EXCEPT ![i] = cur \div 10], i - 1, cur % 10)

\* bytes * 10 + d; carry is what does not fit the width
RECURSIVE MulAdd10(_, _, _)
MulAdd10(bytes, i, carry) ==
  IF i > Len(bytes) THEN [v |-> bytes, carry |-> carry]
  ELSE LET cur == bytes[i] * 10 + carry
       IN MulAdd10([bytes EXCEPT ![i] = cur % 256], i + 1, cur \div 256)

Digits == <<"0", "1", "2", "3", "4", "5", "6", "7", "8", "9">>

IsDigit(c) == \E d \in 1..10 : Digits[d] = c

DigitVal(c) == (CHOOSE d \in 1..10 : Digits[d] = c) - 1

\* the decimal digits of an unsigned byte sequence, most significant first
RECURSIVE WriteDigits(_)
WriteDigits(bytes) ==
  LET dm == DivMod10(bytes, Len(bytes), 0)
  IN IF IsZero(dm.q) THEN <<Digits[dm.r + 1]>>
     ELSE Append(WriteDigits(dm.q), Digits[dm.r + 1])

\* itoa::fmt that formats the bit pattern as if it were unsigned
itoa_fmt_unsigned(ty, bytes) == WriteDigits(bytes)

\* itoa::fmt: a minus sign for a negative value, then the digits of the
\* magnitude
itoa_fmt(ty, bytes) ==
  IF Signed(ty) /\ TopBit(bytes)
  THEN <<"-">> \o WriteDigits(WrappingNeg(bytes))
  ELSE WriteDigits(bytes)

\* ---------------------------------------------------------------------------
\* State

VARIABLES
  hasher,   \* the iteration order of the HashMaps of this run
  pc,       \* the position of the caller
  input,    \* [t, v]: the value handed to to_attribute_value and its type
  encoded,  \* the Result of to_attribute_value, or the AttributeValue given
  decoded,  \* the Result of the deserializer
  calls,    \* the visitor callbacks the deserializer has invoked
  reader,   \* an AttributeValueMapDeserializer
  builder,  \* an AttributeValueMapSerializer
  log       \* the calls made on the reader or builder and what they returned

vars == <<hasher, pc, input, encoded, decoded, calls, reader, builder, log>>

\* ---------------------------------------------------------------------------
\* HashMap

EmptyMap == <<>>

Insert(m, key, value) ==
  [x \in (DOMAIN m) \cup {key} |-> IF x = key THEN value ELSE m[x]]

Singleton(key, value) == Insert(EmptyMap, key, value)

Reverse(s) == [i \in 1..Len(s) |-> s[Len(s) + 1 - i]]

Enumerate(S) ==
  CHOOSE s \in [1..Cardinality(S) -> S] :
    \A i, j \in 1..Cardinality(S) : i # j => s[i] # s[j]

\* the keys of a HashMap in the order keys(), values() and iter() all visit
\* them: unspecified, the same for every iterator over one unmodified map
Iter(m) ==
  IF hasher = "fwd" THEN Enumerate(DOMAIN m) ELSE Reverse(Enumerate(DOMAIN m))

\* ---------------------------------------------------------------------------
\* AttributeValue (rusoto_dynamodb), as far as this crate reads and writes it

AttributeValue_default ==
  [bool |-> None, n |-> None, s |-> None, b |-> None, null |-> None,
   l |-> None, m |-> None]

\* ---------------------------------------------------------------------------
\* AttributeValueSerializer

serialize_int(ty, v) ==
  Ok([AttributeValue_default EXCEPT !.n = Some(itoa_fmt(ty, v))])

serialize_bool(v) == Ok([AttributeValue_default EXCEPT !.bool = Some(v)])

\* serialize_i8 .. serialize_u64
serialize_integer(ty, v) == serialize_int(ty, v)

serialize_char(value) ==
  Ok([AttributeValue_default EXCEPT !.s = Some(<<value>>)])

serialize_str(value) == Ok([AttributeValue_default EXCEPT !.s = Some(value)])

serialize_bytes(value) == Ok([AttributeValue_default EXCEPT !.b = Some(value)])

serialize_unit == Ok([AttributeValue_default EXCEPT !.null = Some(TRUE)])

serialize_unit_struct == serialize_unit

serialize_none == serialize_unit

\* serialize_some that wraps the inner value in a one-element list
serialize_some_wrapped(value) ==
  IF value.ok THEN Ok([AttributeValue_default EXCEPT !.l = Some(<<value.val>>)])
  ELSE value

\* value is what value.serialize(AttributeValueSerializer) returned
serialize_some(value) == value

serialize_newtype_struct(value) == value

serialize_newtype_variant(variant, value) ==
  IF value.ok
  THEN Ok([AttributeValue_default EXCEPT
             !.m = Some(Singleton(variant, value.val))])
  ELSE value

\* serialize_unit_variant that writes the variant name as a string, not a map
serialize_unit_variant_as_string(variant) ==
  Ok([AttributeValue_default EXCEPT !.s = Some(variant)])

\* serialize_unit_variant that also sets null on the enclosing value
serialize_unit_variant_with_null(variant) ==
  Ok([AttributeValue_default EXCEPT
        !.null = Some(TRUE),
        !.m = Some(Singleton(variant,
                  [AttributeValue_default EXCEPT !.null = Some(TRUE)]))])

serialize_unit_variant(variant) ==
  Ok([AttributeValue_default EXCEPT
        !.m = Some(Singleton(variant,
                  [AttributeValue_default EXCEPT !.null = Some(TRUE)]))])

\* serialize_map: Default::default()
MapSerializer_default == [key |-> None, values |-> EmptyMap]

\* serialize_seq, serialize_tuple, serialize_tuple_struct: Default::default()
SeqSerializer_default == [values |-> <<>>]

\* serialize_struct: Default::default()
StructSerializer_default == [values |-> EmptyMap]

serialize_struct_variant(variant) == [values |-> EmptyMap, variant |-> variant]

serialize_tuple_variant(variant) == [values |-> <<>>, variant |-> variant]

\* ---------------------------------------------------------------------------
\* Compound serializers.  A method that takes &mut self returns the serializer
\* it leaves behind and its Result.

\* serialize_key that takes a NULL key as the empty string
Map_serialize_key_null_as_empty(self, key) ==
  IF key.ok /\ IsSome(key.val.s)
  THEN [self |-> [self EXCEPT !.key = Some(Unwrap(key.val.s))], res |-> Ok(<<>>)]
  ELSE IF key.ok /\ IsSome(key.val.null)
  THEN [self |-> [self EXCEPT !.key = Some(<<>>)], res |-> Ok(<<>>)]
  ELSE [self |-> self, res |-> Error_new("Key Must Be String")]

\* serialize_key that takes the text of a number as a key too
Map_serialize_key_any_text(self, key) ==
  IF key.ok /\ IsSome(key.val.s)
  THEN [self |-> [self EXCEPT !.key = Some(Unwrap(key.val.s))], res |-> Ok(<<>>)]
  ELSE IF key.ok /\ IsSome(key.val.n)
  THEN [self |-> [self EXCEPT !.key = Some(Unwrap(key.val.n))], res |-> Ok(<<>>)]
  ELSE [self |-> self, res |-> Error_new("Key Must Be String")]

\* AttributeValueMapSerializer
Map_serialize_key(self, key) ==
  IF key.ok /\ IsSome(key.val.s)
  THEN [self |-> [self EXCEPT !.key = Some(Unwrap(key.val.s))], res |-> Ok(<<>>)]
  ELSE [self |-> self, res |-> Error_new("Key Must Be String")]

\* serialize_value that hands back the error of the value as it is
Map_serialize_value_transparent(self, value) ==
  IF IsSome(self.key) /\ value.ok
  THEN [self |-> [self EXCEPT
                    !.values = Insert(self.values, Unwrap(self.key), value.val)],
        res |-> Ok(<<>>)]
  ELSE IF ~value.ok THEN [self |-> self, res |-> value]
  ELSE [self |-> self,
        res |-> Error_new("Key Must Be Set and Value Must Be Serializable")]

\* serialize_value that drops the pending key when it fails
Map_serialize_value_clearing(self, value) ==
  IF IsSome(self.key) /\ value.ok
  THEN [self |-> [self EXCEPT
                    !.values = Insert(self.values, Unwrap(self.key), value.val)],
        res |-> Ok(<<>>)]
  ELSE [self |-> [self EXCEPT !.key = None],
        res |-> Error_new("Key Must Be Set and Value Must Be Serializable")]

Map_serialize_value(self, value) ==
  IF IsSome(self.key) /\ value.ok
  THEN [self |-> [self EXCEPT
                    !.values = Insert(self.values, Unwrap(self.key), value.val)],
        res |-> Ok(<<>>)]
  ELSE [self |-> self,
        res |-> Error_new("Key Must Be Set and Value Must Be Serializable")]

Map_end(self) == Ok([AttributeValue_default EXCEPT !.m = Some(self.values)])

\* serialize that puts the element in front
SeqTuple_serialize_front(self, elem) ==
  IF elem.ok
  THEN [self |-> [self EXCEPT !.values = <<elem.val>> \o self.values],
        res |-> Ok(<<>>)]
  ELSE [self |-> self, res |-> elem]

\* AttributeValueSeqTupleAndTupleStructSerializer
SeqTuple_serialize(self, elem) ==
  IF elem.ok
  THEN [self |-> [self EXCEPT !.values = Append(self.values, elem.val)],
        res |-> Ok(<<>>)]
  ELSE [self |-> self, res |-> elem]

SeqTuple_end(self) == Ok([AttributeValue_default EXCEPT !.l = Some(self.values)])

\* serialize_field that forgets the fields serialized before
Struct_serialize_field_forgetful(self, key, value) ==
  IF value.ok
  THEN [self |-> [self EXCEPT !.values = Singleton(key, value.val)],
        res |-> Ok(<<>>)]
  ELSE [self |-> self, res |-> value]

\* AttributeValueStructSerializer
Struct_serialize_field(self, key, value) ==
  IF value.ok
  THEN [self |-> [self EXCEPT !.values = Insert(self.values, key, value.val)],
        res |-> Ok(<<>>)]
  ELSE [self |-> self, res |-> value]

Struct_end(self) == Ok([AttributeValue_default EXCEPT !.m = Some(self.values)])

\* AttributeValueStructVariantSerializer
StructVariant_serialize_field(self, field, value) ==
  IF value.ok
  THEN [self |-> [self EXCEPT !.values = Insert(self.values, field, value.val)],
        res |-> Ok(<<>>)]
  ELSE [self |-> self, res |-> value]

StructVariant_end(self) ==
  Ok([AttributeValue_default EXCEPT
        !.m = Some(Singleton(self.variant,
                  [AttributeValue_default EXCEPT !.m = Some(self.values)]))])

\* AttributeValueTupleVariantSerializer
TupleVariant_serialize_field(self, value) ==
  IF value.ok
  THEN [self |-> [self EXCEPT !.values = Append(self.values, value.val)],
        res |-> Ok(<<>>)]
  ELSE [self |-> self, res |-> value]

TupleVariant_end(self) ==
  Ok([AttributeValue_default EXCEPT
        !.m = Some(Singleton(self.variant,
                  [AttributeValue_default EXCEPT !.l = Some(self.values)]))])

\* ---------------------------------------------------------------------------
\* Types of Serde values.  A value carries no type of its own: bool is TRUE or
\* FALSE, an integer its bytes, char a one-character string, String a
\* sequence of characters, unit "unit", Option a sequence of length <= 1,
\* Vec, tuple and the fields of a struct a sequence, HashMap a function, and
\* a value of an enum the pair of its variant's index and its payload.

TBool == [k |-> "bool"]

TInt(ty) == [k |-> "int", ty |-> ty]

TChar == [k |-> "char"]

TString == [k |-> "string"]

TUnit == [k |-> "unit"]

\* a byte buffer that serializes itself with serialize_bytes
TBytes == [k |-> "bytes"]

TUnitStruct == [k |-> "unit_struct"]

\* a string newtype whose own Serialize and Deserialize implementations
\* reject some texts with a custom error
TChecked == [k |-> "checked"]

\* the texts TChecked rejects: the empty one and those that start with b
Rejected(v) == Len(v) = 0 \/ v[1] = "b"

CustomMessage(v) == IF Len(v) = 0 THEN "rejected: empty" ELSE "rejected: b"

TOption(t) == [k |-> "option", of |-> t]

TNewtypeStruct(t) == [k |-> "newtype_struct", of |-> t]

TSeq(t) == [k |-> "seq", of |-> t]

TTuple(ts) == [k |-> "tuple", ts |-> ts]

TTupleStruct(ts) == [k |-> "tuple_struct", ts |-> ts]

TMap(kt, vt) == [k |-> "map", key |-> kt, of |-> vt]

TStruct(fields, ts) == [k |-> "struct", fields |-> fields, ts |-> ts]

TEnum(variants) == [k |-> "enum", variants |-> variants]

UnitVariant(name) == [name |-> name, vk |-> "unit"]

NewtypeVariant(name, t) == [name |-> name, vk |-> "newtype", of |-> t]

TupleVariant(name, ts) == [name |-> name, vk |-> "tuple", ts |-> ts]

StructVariant(name, fields, ts) ==
  [name |-> name, vk |-> "struct", fields |-> fields, ts |-> ts]

Unit == "unit"

EnumValue(idx, payload) == <<idx, payload>>

VariantIndex(v) == v[1]

Payload(v) == v[2]

\* ---------------------------------------------------------------------------
\* to_attribute_value: value.serialize(AttributeValueSerializer), the walk
\* Serde's Serialize implementations make over the serializer

RECURSIVE Serialize(_, _), SerializeElements(_, _, _, _),
          SerializeEntries(_, _, _, _, _), SerializeFields(_, _, _, _, _),
          SerializeVariantElements(_, _, _, _),
          SerializeVariantFields(_, _, _, _, _)

\* for e in self { seq.serialize_element(e)?; } seq.end()
SerializeElements(self, ts, vs, i) ==
  IF i > Len(vs) THEN SeqTuple_end(self)
  ELSE LET r == SeqTuple_serialize(self, Serialize(ts[i], vs[i]))
       IN IF r.res.ok THEN SerializeElements(r.self, ts, vs, i + 1) ELSE r.res

\* for (k, v) in self { map.serialize_key(k)?; map.serialize_value(v)?; }
\* map.end()
SerializeEntries(self, t, m, order, i) ==
  IF i > Len(order) THEN Map_end(self)
  ELSE LET rk == Map_serialize_key(self, Serialize(t.key, order[i]))
       IN IF ~rk.res.ok THEN rk.res
          ELSE LET rv == Map_serialize_value(rk.self,
                                             Serialize(t.of, m[order[i]]))
               IN IF rv.res.ok
                  THEN SerializeEntries(rv.self, t, m, order, i + 1)
                  ELSE rv.res

\* state.serialize_field(name, &self.field)?; ... state.end()
SerializeFields(self, fields, ts, vs, i) ==
  IF i > Len(fields) THEN Struct_end(self)
  ELSE LET r == Struct_serialize_field(self, fields[i],
                                       Serialize(ts[i], vs[i]))
       IN IF r.res.ok THEN SerializeFields(r.self, fields, ts, vs, i + 1)
          ELSE r.res

SerializeVariantElements(self, ts, vs, i) ==
  IF i > Len(vs) THEN TupleVariant_end(self)
  ELSE LET r == TupleVariant_serialize_field(self, Serialize(ts[i], vs[i]))
       IN IF r.res.ok THEN SerializeVariantElements(r.self, ts, vs, i + 1)
          ELSE r.res

SerializeVariantFields(self, fields, ts, vs, i) ==
  IF i > Len(fields) THEN StructVariant_end(self)
  ELSE LET r == StructVariant_serialize_field(self, fields[i],
                                              Serialize(ts[i], vs[i]))
       IN IF r.res.ok
          THEN SerializeVariantFields(r.self, fields, ts, vs, i + 1)
          ELSE r.res

SerializeVariant(variant, payload) ==
  CASE variant.vk = "unit" -> serialize_unit_variant(variant.name)
    [] variant.vk = "newtype" ->
         serialize_newtype_variant(variant.name, Serialize(variant.of, payload))
    [] variant.vk = "tuple" ->
         SerializeVariantElements(serialize_tuple_variant(variant.name),
                                  variant.ts, payload, 1)
    [] variant.vk = "struct" ->
         SerializeVariantFields(serialize_struct_variant(variant.name),
                                variant.fields, variant.ts, payload, 1)

Serialize(t, v) ==
  CASE t.k = "bool" -> serialize_bool(v)
    [] t.k = "int" -> serialize_integer(t.ty, v)
    [] t.k = "char" -> serialize_char(v)
    [] t.k = "string" -> serialize_str(v)
    [] t.k = "bytes" -> serialize_bytes(v)
    [] t.k = "unit" -> serialize_unit
    [] t.k = "unit_struct" -> serialize_unit_struct
    [] t.k = "checked" ->
         IF Rejected(v) THEN Error_custom(CustomMessage(v))
         ELSE serialize_str(v)
    [] t.k = "option" ->
         IF IsSome(v) THEN serialize_some(Serialize(t.of, Unwrap(v)))
         ELSE serialize_none
    [] t.k = "newtype_struct" -> serialize_newtype_struct(Serialize(t.of, v))
    [] t.k = "seq" ->
         SerializeElements(SeqSerializer_default,
                           [i \in 1..Len(v) |-> t.of], v, 1)
    [] t.k \in {"tuple", "tuple_struct"} ->
         SerializeElements(SeqSerializer_default, t.ts, v, 1)
    [] t.k = "map" ->
         SerializeEntries(MapSerializer_default, t, v, Iter(v), 1)
    [] t.k = "struct" ->
         SerializeFields(StructSerializer_default, t.fields, t.ts, v, 1)
    [] t.k = "enum" -> SerializeVariant(t.variants[VariantIndex(v)], Payload(v))

to_attribute_value(t, value) == Serialize(t, value)

\* ---------------------------------------------------------------------------
\* str::parse

AllDigits(s) == \A i \in 1..Len(s) : IsDigit(s[i])

\* the digits accumulated into 64 bits, most significant digit first
RECURSIVE Accumulate(_, _, _)
Accumulate(digits, i, acc) ==
  IF i > Len(digits) THEN acc
  ELSE LET ma == MulAdd10(acc.v, 1, DigitVal(digits[i]))
       IN Accumulate(digits, i + 1,
                     [v |-> ma.v, overflow |-> acc.overflow \/ ma.carry > 0])

\* 2^63 as an unsigned magnitude
MinMagnitude == [i \in 1..8 |-> IF i = 8 THEN 128 ELSE 0]

\* n.parse::<i64>(): an optional sign, then one or more digits, within
\* i64::MIN ..= i64::MAX
parse_i64(n) ==
  IF Len(n) = 0 THEN Err("cannot parse integer from empty string")
  ELSE LET neg == n[1] = "-"
           digits == IF n[1] \in {"+", "-"} THEN Tail(n) ELSE n
       IN IF Len(digits) = 0 \/ ~AllDigits(digits)
          THEN Err("invalid digit found in string")
          ELSE LET acc == Accumulate(digits, 1,
                                     [v |-> Zeros(8), overflow |-> FALSE])
               IN IF neg
                  THEN IF ~acc.overflow
                          /\ (~TopBit(acc.v) \/ acc.v = MinMagnitude)
                       THEN Ok(WrappingNeg(acc.v))
                       ELSE Err("number too small to fit in target type")
                  ELSE IF ~acc.overflow /\ ~TopBit(acc.v)
                       THEN Ok(acc.v)
                       ELSE Err("number too large to fit in target type")

\* the first index of s holding one of cs, or Len(s) + 1
IndexOf(s, cs) ==
  IF \E i \in 1..Len(s) : s[i] \in cs
  THEN CHOOSE i \in 1..Len(s) : s[i] \in cs /\ \A j \in 1..(i - 1) : s[j] \notin cs
  ELSE Len(s) + 1

\* digits with at most one point and at least one digit
IsMantissa(s) ==
  LET p == IndexOf(s, {"."})
      int == SubSeq(s, 1, p - 1)
      frac == SubSeq(s, p + 1, Len(s))
  IN AllDigits(int) /\ AllDigits(frac) /\ Len(int) + Len(frac) > 0

\* an optional sign and one or more digits
IsExponent(s) ==
  LET digits == IF Len(s) > 0 /\ s[1] \in {"+", "-"} THEN Tail(s) ELSE s
  IN Len(digits) > 0 /\ AllDigits(digits)

\* n.parse::<f64>() of a text made of digits, signs, points and exponent
\* marks: the float is kept as the text that denotes it
parse_f64(n) ==
  LET body == IF Len(n) > 0 /\ n[1] \in {"+", "-"} THEN Tail(n) ELSE n
      e == IndexOf(body, {"e", "E"})
  IN IF IsMantissa(SubSeq(body, 1, e - 1))
        /\ (e > Len(body) \/ IsExponent(SubSeq(body, e + 1, Len(body))))
     THEN Ok([f64 |-> n])
     ELSE Err("invalid float literal")

\* ---------------------------------------------------------------------------
\* AttributeValueDeserializer.  A deserialize method returns the visitor
\* callback it invokes, Ok([cb |-> name, arg |-> argument]), or its error.

Callback(cb, arg) == Ok([cb |-> cb, arg |-> arg])

\* deserialize_any that tries n as a float before it tries it as an integer
deserialize_any_float_first(value) ==
  IF IsSome(value.bool) THEN Callback("visit_bool", Unwrap(value.bool))
  ELSE IF IsSome(value.l) THEN Callback("visit_seq", Unwrap(value.l))
  ELSE IF IsSome(value.m) THEN Callback("visit_map", Unwrap(value.m))
  ELSE IF IsSome(value.n)
  THEN LET i == parse_i64(Unwrap(value.n))
           f == parse_f64(Unwrap(value.n))
       IN IF f.ok THEN Callback("visit_f64", f.val)
          ELSE IF i.ok THEN Callback("visit_i64", i.val)
          ELSE Error_new("Numeric Value Expected")
  ELSE IF IsSome(value.null) THEN Callback("visit_unit", Unit)
  ELSE IF IsSome(value.s) THEN Callback("visit_borrowed_str", Unwrap(value.s))
  ELSE Error_new("Supported Value Expected")

\* deserialize_any that looks at n before l and m
deserialize_any_number_first(value) ==
  IF IsSome(value.bool) THEN Callback("visit_bool", Unwrap(value.bool))
  ELSE IF IsSome(value.n)
  THEN LET i == parse_i64(Unwrap(value.n))
           f == parse_f64(Unwrap(value.n))
       IN IF i.ok THEN Callback("visit_i64", i.val)
          ELSE IF f.ok THEN Callback("visit_f64", f.val)
          ELSE Error_new("Numeric Value Expected")
  ELSE IF IsSome(value.l) THEN Callback("visit_seq", Unwrap(value.l))
  ELSE IF IsSome(value.m) THEN Callback("visit_map", Unwrap(value.m))
  ELSE IF IsSome(value.null) THEN Callback("visit_unit", Unit)
  ELSE IF IsSome(value.s) THEN Callback("visit_borrowed_str", Unwrap(value.s))
  ELSE Error_new("Supported Value Expected")

deserialize_any(value) ==
  IF IsSome(value.bool) THEN Callback("visit_bool", Unwrap(value.bool))
  ELSE IF IsSome(value.l) THEN Callback("visit_seq", Unwrap(value.l))
  ELSE IF IsSome(value.m) THEN Callback("visit_map", Unwrap(value.m))
  ELSE IF IsSome(value.n)
  THEN LET i == parse_i64(Unwrap(value.n))
           f == parse_f64(Unwrap(value.n))
       IN IF i.ok THEN Callback("visit_i64", i.val)
          ELSE IF f.ok THEN Callback("visit_f64", f.val)
          ELSE Error_new("Numeric Value Expected")
  ELSE IF IsSome(value.null) THEN Callback("visit_unit", Unit)
  ELSE IF IsSome(value.s) THEN Callback("visit_borrowed_str", Unwrap(value.s))
  ELSE Error_new("Supported Value Expected")

\* deserialize_char that takes strings of one character only
deserialize_char_single(value) ==
  IF IsSome(value.s)
  THEN IF Len(Unwrap(value.s)) = 1
       THEN Callback("visit_char", Unwrap(value.s)[1])
       ELSE Error_new("Non-Zero Length String Expected")
  ELSE Error_new("String Value Expected (Char)")

deserialize_char(value) ==
  IF IsSome(value.s)
  THEN IF Len(Unwrap(value.s)) > 0
       THEN Callback("visit_char", Unwrap(value.s)[1])
       ELSE Error_new("Non-Zero Length String Expected")
  ELSE Error_new("String Value Expected (Char)")

deserialize_bytes(value) ==
  IF IsSome(value.b) THEN Callback("visit_bytes", Unwrap(value.b))
  ELSE Error_new("Byte Vector Value Expected")

deserialize_byte_buf(value) ==
  IF IsSome(value.b) THEN Callback("visit_byte_buf", Unwrap(value.b))
  ELSE Error_new("Byte Vector Value Expected")

\* deserialize_option that never answers None
deserialize_option_present(value) == Callback("visit_some", value)

\* deserialize_option that takes every populated null for None
deserialize_option_any_null(value) ==
  IF IsSome(value.null) THEN Callback("visit_none", Unit)
  ELSE Callback("visit_some", value)

deserialize_option(value) ==
  IF value.null = Some(TRUE) THEN Callback("visit_none", Unit)
  ELSE Callback("visit_some", value)

deserialize_newtype_struct(value) == Callback("visit_newtype_struct", value)

\* AttributeValueEnumDeserializer::new(key, value)
EnumDeserializer_new(key, value) == [key |-> key, value |-> value]

\* AttributeValueMapDeserializer::new whose values cursor walks the map the
\* other way round
MapDeserializer_new_misaligned(values) ==
  LET order == Iter(values)
  IN [keys |-> order,
      values |-> Reverse([i \in 1..Len(order) |-> values[order[i]]])]

\* AttributeValueMapDeserializer::new: both cursors walk the same map
MapDeserializer_new(values) ==
  LET order == Iter(values)
  IN [keys |-> order, values |-> [i \in 1..Len(order) |-> values[order[i]]]]

\* (m.keys().next(), m.values().next())
deserialize_enum(value) ==
  IF IsSome(value.m)
  THEN LET m == Unwrap(value.m)
           order == Iter(m)
       IN IF Len(order) > 0
          THEN Callback("visit_enum",
                        EnumDeserializer_new(order[1], m[order[1]]))
          ELSE Error_new("Key/Value Expected")
  ELSE Error_new("Map Value Expected")

\* AttributeValueEnumKeyDeserializer and AttributeValueMapKeyDeserializer:
\* every deserialize method forwards to deserialize_any
key_deserialize_any(key) == Callback("visit_string", key)

\* AttributeValueSeqDeserializer::new
SeqDeserializer_new(values) == [values |-> values]

\* unit_variant that takes every populated null
unit_variant_any_null(value) ==
  IF IsSome(value.null) THEN Ok(Unit)
  ELSE Error_new("Null Value Expected")

\* AttributeValueVariantDeserializer
unit_variant(value) ==
  IF value.null = Some(TRUE) THEN Ok(Unit)
  ELSE Error_new("Null Value Expected")

tuple_variant(value) ==
  IF IsSome(value.l) THEN Callback("visit_seq", Unwrap(value.l))
  ELSE Error_new("List Value Expected")

struct_variant(value) ==
  IF IsSome(value.m) THEN Callback("visit_map", Unwrap(value.m))
  ELSE Error_new("Map Value Expected")

\* ---------------------------------------------------------------------------
\* from_attribute_value: T::deserialize(&mut AttributeValueDeserializer), the
\* visitors of Serde's Deserialize implementations driven by the callbacks

\* what a derived struct or enum reads its field and variant names as
TField(fields) == [k |-> "field", fields |-> fields]

TVariant(variants) == [k |-> "variant", variants |-> variants]

TIgnoredAny == [k |-> "ignored_any"]

\* a self-describing target, whose visitor keeps the callback it received
TAny == [k |-> "any"]

invalid_type == Err("invalid type")

\* the integer visitors: an i64 is taken when it is in the type's range
visit_i64(ty, v) ==
  LET w == Width(ty)
      fits == IF Signed(ty)
              THEN \A i \in (w + 1)..8 : v[i] = (IF v[w] >= 128 THEN 255 ELSE 0)
              ELSE ~TopBit(v) /\ \A i \in (w + 1)..8 : v[i] = 0
  IN IF fits THEN Ok(SubSeq(v, 1, w)) ELSE Err("invalid value")

\* the visitors that take a string: String, char, and the generated field
\* and variant identifiers
visit_str(t, v) ==
  CASE t.k = "string" -> Ok(v)
    [] t.k = "char" -> IF Len(v) = 1 THEN Ok(v[1]) ELSE Err("invalid value")
    [] t.k = "field" ->
         IF \E i \in 1..Len(t.fields) : t.fields[i] = v
         THEN Ok(CHOOSE i \in 1..Len(t.fields) : t.fields[i] = v)
         ELSE Ok(0)
    [] t.k = "variant" ->
         IF \E i \in 1..Len(t.variants) : t.variants[i].name = v
         THEN Ok(CHOOSE i \in 1..Len(t.variants) : t.variants[i].name = v)
         ELSE Err("unknown variant")
    [] t.k = "checked" ->
         IF Rejected(v) THEN Error_custom(CustomMessage(v)) ELSE Ok(v)
    [] t.k = "ignored_any" -> Ok(Unit)
    [] OTHER -> invalid_type

\* the Deserializer method the Deserialize implementation of t calls
Deserializer_method(t, value) ==
  CASE t.k = "char" -> deserialize_char(value)
    [] t.k = "bytes" -> deserialize_byte_buf(value)
    [] t.k = "option" -> deserialize_option(value)
    [] t.k = "newtype_struct" -> deserialize_newtype_struct(value)
    [] t.k = "enum" -> deserialize_enum(value)
    [] OTHER -> deserialize_any(value)

RECURSIVE Deserialize(_, _), Visit(_, _), Seq_next_element_seed(_, _),
          Map_next_key_seed(_, _), Map_next_value_seed(_, _),
          VisitSeqVec(_, _, _), VisitSeqTuple(_, _, _, _),
          VisitMapHash(_, _, _), VisitMapStruct(_, _, _), VisitMapIgnored(_),
          VisitEnum(_, _)

\* AttributeValueSeqDeserializer::next_element_seed
Seq_next_element_seed(self, seed) ==
  IF Len(self.values) > 0
  THEN LET r == Deserialize(seed, Head(self.values))
       IN [self |-> [self EXCEPT !.values = Tail(self.values)],
           res |-> IF r.ok THEN Ok(Some(r.val)) ELSE r]
  ELSE [self |-> self, res |-> Ok(None)]

\* AttributeValueMapDeserializer::next_key_seed
Map_next_key_seed(self, seed) ==
  IF Len(self.keys) > 0
  THEN LET d == key_deserialize_any(Head(self.keys))
           r == visit_str(seed, d.val.arg)
       IN [self |-> [self EXCEPT !.keys = Tail(self.keys)],
           res |-> IF r.ok THEN Ok(Some(r.val)) ELSE r]
  ELSE [self |-> self, res |-> Ok(None)]

\* AttributeValueMapDeserializer::next_value_seed
Map_next_value_seed(self, seed) ==
  IF Len(self.values) > 0
  THEN [self |-> [self EXCEPT !.values = Tail(self.values)],
        res |-> Deserialize(seed, Head(self.values))]
  ELSE [self |-> self, res |-> Error_new("Value Expected")]

\* Vec: while let Some(value) = seq.next_element()? { values.push(value) }
VisitSeqVec(self, t, acc) ==
  LET r == Seq_next_element_seed(self, t)
  IN IF ~r.res.ok THEN r.res
     ELSE IF IsSome(r.res.val)
     THEN VisitSeqVec(r.self, t, Append(acc, Unwrap(r.res.val)))
     ELSE Ok(acc)

\* tuples and the fields of a struct read from a sequence: one element per
\* position, invalid length when the sequence ends early
VisitSeqTuple(self, ts, i, acc) ==
  IF i > Len(ts) THEN Ok(acc)
  ELSE LET r == Seq_next_element_seed(self, ts[i])
       IN IF ~r.res.ok THEN r.res
          ELSE IF IsSome(r.res.val)
          THEN VisitSeqTuple(r.self, ts, i + 1, Append(acc, Unwrap(r.res.val)))
          ELSE Err("invalid length")

\* HashMap: while let Some((key, value)) = map.next_entry()? { insert }
VisitMapHash(self, t, acc) ==
  LET rk == Map_next_key_seed(self, t.key)
  IN IF ~rk.res.ok THEN rk.res
     ELSE IF ~IsSome(rk.res.val) THEN Ok(acc)
     ELSE LET rv == Map_next_value_seed(rk.self, t.of)
          IN IF ~rv.res.ok THEN rv.res
             ELSE VisitMapHash(rv.self, t,
                               Insert(acc, Unwrap(rk.res.val), rv.res.val))

\* a derived struct: each key names a field or is ignored; a field that never
\* came is an error unless it is an Option
VisitMapStruct(self, t, acc) ==
  LET rk == Map_next_key_seed(self, TField(t.fields))
  IN IF ~rk.res.ok THEN rk.res
     ELSE IF ~IsSome(rk.res.val)
     THEN IF \E i \in 1..Len(acc) : ~IsSome(acc[i]) /\ t.ts[i].k # "option"
          THEN Err("missing field")
          ELSE Ok([i \in 1..Len(acc) |->
                     IF IsSome(acc[i]) THEN Unwrap(acc[i]) ELSE None])
     ELSE LET f == Unwrap(rk.res.val)
          IN IF f = 0
             THEN LET rv == Map_next_value_seed(rk.self, TIgnoredAny)
                  IN IF ~rv.res.ok THEN rv.res
                     ELSE VisitMapStruct(rv.self, t, acc)
             ELSE IF IsSome(acc[f]) THEN Err("duplicate field")
             ELSE LET rv == Map_next_value_seed(rk.self, t.ts[f])
                  IN IF ~rv.res.ok THEN rv.res
                     ELSE VisitMapStruct(rv.self, t,
                                         [acc EXCEPT ![f] = Some(rv.res.val)])

\* IgnoredAny: while let Some((IgnoredAny, IgnoredAny)) = map.next_entry()? {}
VisitMapIgnored(self) ==
  LET rk == Map_next_key_seed(self, TIgnoredAny)
  IN IF ~rk.res.ok THEN rk.res
     ELSE IF ~IsSome(rk.res.val) THEN Ok(Unit)
     ELSE LET rv == Map_next_value_seed(rk.self, TIgnoredAny)
          IN IF ~rv.res.ok THEN rv.res ELSE VisitMapIgnored(rv.self)

\* a derived enum: AttributeValueEnumDeserializer::variant_seed reads the key
\* as the variant, then the variant's kind picks the VariantAccess method
VisitEnum(t, access) ==
  LET tag == visit_str(TVariant(t.variants), key_deserialize_any(access.key).val.arg)
  IN IF ~tag.ok THEN tag
     ELSE LET variant == t.variants[tag.val]
              r == CASE variant.vk = "unit" -> unit_variant(access.value)
                     [] variant.vk = "newtype" ->
                          Deserialize(variant.of, access.value)
                     [] variant.vk = "tuple" ->
                          LET d == tuple_variant(access.value)
                          IN IF d.ok
                             THEN VisitSeqTuple(SeqDeserializer_new(d.val.arg),
                                                variant.ts, 1, <<>>)
                             ELSE d
                     [] variant.vk = "struct" ->
                          LET d == struct_variant(access.value)
                          IN IF d.ok
                             THEN VisitMapStruct(MapDeserializer_new(d.val.arg),
                                    variant,
                                    [i \in 1..Len(variant.fields) |-> None])
                             ELSE d
          IN IF r.ok THEN Ok(EnumValue(tag.val, r.val)) ELSE r

\* the visitor of type t receiving callback c
Visit(t, c) ==
  CASE t.k = "bool" -> IF c.cb = "visit_bool" THEN Ok(c.arg) ELSE invalid_type
    [] t.k = "int" ->
         IF c.cb = "visit_i64" THEN visit_i64(t.ty, c.arg) ELSE invalid_type
    [] t.k = "char" ->
         IF c.cb = "visit_char" THEN Ok(c.arg)
         ELSE IF c.cb = "visit_borrowed_str" THEN visit_str(t, c.arg)
         ELSE invalid_type
    [] t.k \in {"string", "checked"} ->
         IF c.cb = "visit_borrowed_str" THEN visit_str(t, c.arg)
         ELSE invalid_type
    [] t.k = "bytes" ->
         IF c.cb = "visit_byte_buf" THEN Ok(c.arg) ELSE invalid_type
    [] t.k \in {"unit", "unit_struct"} ->
         IF c.cb = "visit_unit" THEN Ok(Unit) ELSE invalid_type
    [] t.k = "option" ->
         IF c.cb = "visit_none" THEN Ok(None)
         ELSE IF c.cb = "visit_some"
         THEN LET r == Deserialize(t.of, c.arg)
              IN IF r.ok THEN Ok(Some(r.val)) ELSE r
         ELSE invalid_type
    [] t.k = "newtype_struct" ->
         IF c.cb = "visit_newtype_struct" THEN Deserialize(t.of, c.arg)
         ELSE invalid_type
    [] t.k = "seq" ->
         IF c.cb = "visit_seq"
         THEN VisitSeqVec(SeqDeserializer_new(c.arg), t.of, <<>>)
         ELSE invalid_type
    [] t.k \in {"tuple", "tuple_struct"} ->
         IF c.cb = "visit_seq"
         THEN VisitSeqTuple(SeqDeserializer_new(c.arg), t.ts, 1, <<>>)
         ELSE invalid_type
    [] t.k = "map" ->
         IF c.cb = "visit_map"
         THEN VisitMapHash(MapDeserializer_new(c.arg), t, EmptyMap)
         ELSE invalid_type
    [] t.k = "struct" ->
         IF c.cb = "visit_map"
         THEN VisitMapStruct(MapDeserializer_new(c.arg), t,
                             [i \in 1..Len(t.fields) |-> None])
         ELSE IF c.cb = "visit_seq"
         THEN VisitSeqTuple(SeqDeserializer_new(c.arg), t.ts, 1, <<>>)
         ELSE invalid_type
    [] t.k = "enum" ->
         IF c.cb = "visit_enum" THEN VisitEnum(t, c.arg) ELSE invalid_type
    [] t.k = "ignored_any" ->
         IF c.cb = "visit_seq"
         THEN LET r == VisitSeqVec(SeqDeserializer_new(c.arg), t, <<>>)
              IN IF r.ok THEN Ok(Unit) ELSE r
         ELSE IF c.cb = "visit_map"
         THEN VisitMapIgnored(MapDeserializer_new(c.arg))
         ELSE Ok(Unit)
    [] t.k = "any" -> Ok(c)

\* T::deserialize: the deserialize method the type asks for, then its visitor
Deserialize(t, value) ==
  LET d == Deserializer_method(t, value)
  IN IF d.ok THEN Visit(t, d.val) ELSE d

from_attribute_value(t, value) == Deserialize(t, value)

\* ---------------------------------------------------------------------------
\* The values drawn as inputs

Chars == {"a", "b"}

Strings == UNION {[1..n -> Chars] : n \in 0..MaxLen}

\* 0, 1, the largest signed value, the smallest signed value (the largest
\* plus one when unsigned) and all bits set (-1, or the largest unsigned)
IntSamples(ty) ==
  LET w == Width(ty)
  IN {Zeros(w),
      [i \in 1..w |-> IF i = 1 THEN 1 ELSE 0],
      [i \in 1..w |-> IF i = w THEN 127 ELSE 255],
      [i \in 1..w |-> IF i = w THEN 128 ELSE 0],
      [i \in 1..w |-> 255]}

RECURSIVE ValuesOf(_), Product(_)

Product(ts) ==
  IF Len(ts) = 0 THEN {<<>>}
  ELSE {<<x>> \o rest : x \in ValuesOf(Head(ts)), rest \in Product(Tail(ts))}

KeysOf(t) == IF t.k = "string" THEN {s \in Strings : Len(s) <= 1} ELSE ValuesOf(t)

PayloadsOf(variant) ==
  CASE variant.vk = "unit" -> {Unit}
    [] variant.vk = "newtype" -> ValuesOf(variant.of)
    [] variant.vk \in {"tuple", "struct"} -> Product(variant.ts)

ValuesOf(t) ==
  CASE t.k = "bool" -> BOOLEAN
    [] t.k = "int" -> IntSamples(t.ty)
    [] t.k = "char" -> Chars
    [] t.k = "string" -> Strings
    [] t.k = "bytes" -> {<<>>, <<1>>}
    [] t.k = "checked" -> {s \in Strings : Len(s) <= 1}
    [] t.k \in {"unit", "unit_struct"} -> {Unit}
    [] t.k = "option" -> {None} \cup {Some(x) : x \in ValuesOf(t.of)}
    [] t.k = "newtype_struct" -> ValuesOf(t.of)
    [] t.k = "seq" -> UNION {[1..n -> ValuesOf(t.of)] : n \in 0..MaxLen}
    [] t.k \in {"tuple", "tuple_struct", "struct"} -> Product(t.ts)
    [] t.k = "map" ->
         UNION {[K -> ValuesOf(t.of)] :
                  K \in {K \in SUBSET KeysOf(t.key) : Cardinality(K) <= MaxLen}}
    [] t.k = "enum" ->
         UNION {{EnumValue(i, p) : p \in PayloadsOf(t.variants[i])} :
                  i \in 1..Len(t.variants)}

LeafTypes ==
  {TBool, TChar, TString, TBytes, TUnit, TUnitStruct}
    \cup {TInt(ty) : ty \in IntTypes}

\* struct Test { a: String, b: i32 } of src/tests/tests.rs
TTest == TStruct(<< <<"a">>, <<"b">> >>, <<TString, TInt("i32")>>)

\* an enum with a variant of each kind
TVariants ==
  TEnum(<<UnitVariant(<<"U">>),
          NewtypeVariant(<<"N">>, TInt("u8")),
          TupleVariant(<<"T">>, <<TBool, TChar>>),
          StructVariant(<<"S">>, << <<"a">>, <<"b">> >>, <<TBool, TUnit>>)>>)

CompoundTypes ==
  {TOption(TBool), TOption(TInt("u64")), TOption(TUnit), TOption(TOption(TBool)),
   TOption(TVariants), TNewtypeStruct(TInt("i16")),
   TSeq(TInt("i8")), TSeq(TOption(TBool)), TSeq(TMap(TBool, TBool)),
   TTuple(<<TString, TInt("i32")>>), TTuple(<<TInt("u64"), TUnit>>),
   TTupleStruct(<<TBool, TChar>>),
   TMap(TString, TBool), TMap(TString, TInt("u8")), TMap(TChar, TBool),
   TMap(TInt("i32"), TBool), TMap(TBool, TBool), TMap(TUnit, TBool),
   TMap(TOption(TString), TBool), TMap(TString, TMap(TBool, TBool)),
   TMap(TString, TSeq(TBool)),
   TTest, TStruct(<< <<"a">>, <<"b">> >>, <<TOption(TBool), TMap(TChar, TUnit)>>),
   TVariants, TSeq(TVariants)}

Types == LeafTypes \cup CompoundTypes

Hashers == {"fwd", "rev"}

NoReader == [keys |-> <<>>, values |-> <<>>]

\* ---------------------------------------------------------------------------
\* A caller that serializes a value and deserializes what it got, as
\* roundtrip of src/tests/tests.rs does

Init ==
  /\ hasher \in Hashers
  /\ pc = "start"
  /\ \E t \in Types : \E v \in ValuesOf(t) : input = [t |-> t, v |-> v]
  /\ encoded = None
  /\ decoded = None
  /\ calls = <<>>
  /\ reader = NoReader
  /\ builder = MapSerializer_default
  /\ log = <<>>

ToAttributeValue ==
  /\ pc = "start"
  /\ encoded' = Some(to_attribute_value(input.t, input.v))
  /\ pc' = "encoded"
  /\ UNCHANGED <<hasher, input, decoded, calls, reader, builder, log>>

FromAttributeValue ==
  /\ pc = "encoded"
  /\ Unwrap(encoded).ok
  /\ decoded' = Some(from_attribute_value(input.t, Unwrap(encoded).val))
  /\ pc' = "decoded"
  /\ UNCHANGED <<hasher, input, encoded, calls, reader, builder, log>>

Next == ToAttributeValue \/ FromAttributeValue

Spec == Init /\ [][Next]_vars

\* ---------------------------------------------------------------------------
\* A caller that serializes a value of one type and deserializes what it got
\* as a type of the same shape, where either implementation may reject a
\* text with a custom error

\* struct Pair { a: T, b: T }
TPairOf(t) == TStruct(<< <<"a">>, <<"b">> >>, <<t, t>>)

\* enum Variants { N(T), T(T, T), S { a: T, b: T } }
TVariantsOf(t) ==
  TEnum(<<NewtypeVariant(<<"N">>, t),
          TupleVariant(<<"T">>, <<t, t>>),
          StructVariant(<<"S">>, << <<"a">>, <<"b">> >>, <<t, t>>)>>)

\* the types serialized and deserialized as themselves
WalkTypes ==
  {TSeq(TChecked), TTuple(<<TChecked, TChecked>>), TOption(TChecked),
   TNewtypeStruct(TChecked), TPairOf(TChecked), TVariantsOf(TChecked),
   TMap(TString, TChecked), TMap(TChecked, TBool), TMap(TBool, TChecked),
   TMap(TString, TMap(TBool, TBool)),
   TMap(TString, TTuple(<<TChecked, TChecked>>)),
   TTuple(<<TMap(TString, TChecked), TChecked>>), TSeq(TInt("u64")),
   TTuple(<<TMap(TBool, TBool), TChecked>>)}

\* <<the type serialized, the type deserialized>>
WalkPairs ==
  {<<t, t>> : t \in WalkTypes}
    \cup {<<TSeq(TString), TSeq(TChecked)>>,
          <<TTuple(<<TString, TString>>), TTuple(<<TChecked, TChecked>>)>>,
          <<TOption(TString), TOption(TChecked)>>,
          <<TPairOf(TString), TPairOf(TChecked)>>,
          <<TVariantsOf(TString), TVariantsOf(TChecked)>>,
          <<TMap(TString, TString), TMap(TChecked, TChecked)>>}

InitWalk ==
  /\ hasher \in Hashers
  /\ pc = "start"
  /\ \E p \in WalkPairs : \E v \in ValuesOf(p[1]) :
       input = [t |-> p[1], v |-> v, as |-> p[2]]
  /\ encoded = None
  /\ decoded = None
  /\ calls = <<>>
  /\ reader = NoReader
  /\ builder = MapSerializer_default
  /\ log = <<>>

\* from_attribute_value::<As>(encoded)
FromAttributeValueAs ==
  /\ pc = "encoded"
  /\ Unwrap(encoded).ok
  /\ decoded' = Some(from_attribute_value(input.as, Unwrap(encoded).val))
  /\ pc' = "decoded"
  /\ UNCHANGED <<hasher, input, encoded, calls, reader, builder, log>>

NextWalk == ToAttributeValue \/ FromAttributeValueAs

SpecWalk == InitWalk /\ [][NextWalk]_vars

\* ---------------------------------------------------------------------------
\* A caller that hands deserialize_any an AttributeValue from anywhere, with
\* any of its fields populated, and a visitor that keeps what it receives

\* texts of n: an integer, a negative integer, a float, and four that are
\* not numbers
NumberTexts ==
  {<<"1">>, <<"-", "1">>, <<"1", ".", "5">>, <<>>, <<"x">>, <<"-">>,
   <<"1", "e">>}

True == [AttributeValue_default EXCEPT !.bool = Some(TRUE)]

AttributeValues ==
  [bool : {None, Some(TRUE), Some(FALSE)},
   n : {None} \cup {Some(text) : text \in NumberTexts},
   s : {None, Some(<<"a">>)},
   b : {None, Some(<<1>>)},
   null : {None, Some(TRUE), Some(FALSE)},
   l : {None, Some(<<>>), Some(<<True>>)},
   m : {None, Some(EmptyMap), Some(Singleton(<<"a">>, True))}]

InitAny ==
  /\ hasher \in Hashers
  /\ pc = "given"
  /\ input = [t |-> TAny, v |-> Unit]
  /\ \E value \in AttributeValues : encoded = Some(Ok(value))
  /\ decoded = None
  /\ calls = <<>>
  /\ reader = NoReader
  /\ builder = MapSerializer_default
  /\ log = <<>>

DeserializeAny ==
  /\ pc = "given"
  /\ LET d == deserialize_any(Unwrap(encoded).val)
     IN calls' = IF d.ok THEN <<d.val>> ELSE <<>>
  /\ decoded' = Some(from_attribute_value(input.t, Unwrap(encoded).val))
  /\ pc' = "dispatched"
  /\ UNCHANGED <<hasher, input, encoded, reader, builder, log>>

NextAny == DeserializeAny

SpecAny == InitAny /\ [][NextAny]_vars

\* ---------------------------------------------------------------------------
\* A caller that hands from_attribute_value an AttributeValue from anywhere
\* and asks for a value of a given type

\* texts of n: integers in and out of the range of each width, with a sign
\* or leading zeros, floats, and texts that are not numbers
DecodeNumbers ==
  {<<"0">>,
   <<"-", "1">>,
   <<"2", "5", "5">>,
   <<"2", "5", "6">>,
   <<"-", "1", "2", "9">>,
   <<"0", "0", "7">>,
   <<"+", "5">>,
   <<"9", "2", "2", "3", "3", "7", "2", "0", "3", "6", "8", "5", "4", "7", "7", "5", "8", "0", "7">>,
   <<"9", "2", "2", "3", "3", "7", "2", "0", "3", "6", "8", "5", "4", "7", "7", "5", "8", "0", "8">>,
   <<"-", "9", "2", "2", "3", "3", "7", "2", "0", "3", "6", "8", "5", "4", "7", "7", "5", "8", "0", "8">>,
   <<"-", "9", "2", "2", "3", "3", "7", "2", "0", "3", "6", "8", "5", "4", "7", "7", "5", "8", "0", "9">>,
   <<"1", "8", "4", "4", "6", "7", "4", "4", "0", "7", "3", "7", "0", "9", "5", "5", "1", "6", "1", "5">>,
   <<"1", ".", "5">>,
   <<"-", "2", "e", "3">>,
   <<>>,
   <<"x">>,
   <<"1", "e">>}

NumberWire ==
  [bool : {None, Some(TRUE)},
   n : {Some(text) : text \in DecodeNumbers},
   s : {None, Some(<<"a">>)},
   b : {None}, null : {None, Some(TRUE)}, l : {None}, m : {None}]

CharWire ==
  [bool : {None, Some(TRUE)},
   n : {None, Some(<<"1">>)},
   s : {None, Some(<<>>), Some(<<"a">>), Some(<<"b", "a">>),
        Some(<<"a", "b", "a">>)},
   b : {None}, null : {None, Some(TRUE)}, l : {None, Some(<<>>)}, m : {None}]

VariantKeys == {<<"U">>, <<"N">>, <<"T">>, <<"S">>, <<"X">>}

VariantPayloads ==
  {[AttributeValue_default EXCEPT !.null = Some(TRUE)],
   [AttributeValue_default EXCEPT !.null = Some(FALSE)],
   [AttributeValue_default EXCEPT !.n = Some(<<"1">>)],
   [AttributeValue_default EXCEPT !.n = Some(<<"2", "5", "6">>)],
   [AttributeValue_default EXCEPT !.s = Some(<<"a">>)],
   [AttributeValue_default EXCEPT !.l = Some(<<True>>)],
   [AttributeValue_default EXCEPT
      !.l = Some(<<True, [AttributeValue_default EXCEPT !.s = Some(<<"a">>)]>>)],
   [AttributeValue_default EXCEPT !.m = Some(EmptyMap)],
   [AttributeValue_default EXCEPT
      !.m = Some(Insert(Singleton(<<"a">>, True), <<"b">>,
                        [AttributeValue_default EXCEPT !.null = Some(TRUE)]))]}

EnumWire ==
  {[AttributeValue_default EXCEPT !.m = Some(m)] :
     m \in UNION {[K -> VariantPayloads] :
                    K \in {K \in SUBSET VariantKeys : Cardinality(K) <= MaxLen}}}
    \cup [bool : {None}, n : {None}, s : {None, Some(<<"U">>)}, b : {None},
          null : {None, Some(TRUE)}, l : {None, Some(<<True>>)}, m : {None}]

DecodeTargets ==
  {TOption(TAny), TOption(TOption(TBool)), TChar, TAny, TVariants}
    \cup {TInt(ty) : ty \in IntTypes}

WireFor(t) ==
  CASE t.k = "option" -> AttributeValues
    [] t.k = "char" -> CharWire
    [] t.k = "enum" -> EnumWire
    [] OTHER -> NumberWire

InitDecode ==
  /\ hasher \in Hashers
  /\ pc = "wire"
  /\ \E t \in DecodeTargets :
       /\ input = [t |-> t, v |-> Unit]
       /\ \E value \in WireFor(t) : encoded = Some(Ok(value))
  /\ decoded = None
  /\ calls = <<>>
  /\ reader = NoReader
  /\ builder = MapSerializer_default
  /\ log = <<>>

\* from_attribute_value::<T>(value); calls keeps the callback the
\* Deserializer method invoked on T's visitor
Decode ==
  /\ pc = "wire"
  /\ LET d == Deserializer_method(input.t, Unwrap(encoded).val)
     IN calls' = IF d.ok THEN <<d.val>> ELSE <<>>
  /\ decoded' = Some(from_attribute_value(input.t, Unwrap(encoded).val))
  /\ pc' = "read"
  /\ UNCHANGED <<hasher, input, encoded, reader, builder, log>>

NextDecode == Decode

SpecDecode == InitDecode /\ [][NextDecode]_vars

\* ---------------------------------------------------------------------------
\* A visitor that drives an AttributeValueMapDeserializer, calling next_key
\* and next_value in any order

ReaderKeys == {<<"a">>, <<"b">>, <<"c">>}

ReaderValues ==
  {True, [AttributeValue_default EXCEPT !.n = Some(<<"1">>)],
   [AttributeValue_default EXCEPT !.null = Some(TRUE)]}

ReaderMaps ==
  UNION {[K -> ReaderValues] :
           K \in {K \in SUBSET ReaderKeys : Cardinality(K) <= MaxLen}}

InitReader ==
  /\ hasher \in Hashers
  /\ pc = "reading"
  /\ input = [t |-> TMap(TString, TAny), v |-> Unit]
  /\ \E values \in ReaderMaps :
       /\ encoded = Some(Ok([AttributeValue_default EXCEPT !.m = Some(values)]))
       /\ reader = MapDeserializer_new(values)
  /\ decoded = None
  /\ calls = <<>>
  /\ builder = MapSerializer_default
  /\ log = <<>>

NextKey ==
  /\ pc = "reading"
  /\ Len(log) < MaxCalls
  /\ LET r == Map_next_key_seed(reader, input.t.key)
     IN /\ reader' = r.self
        /\ log' = Append(log, [op |-> "next_key", res |-> r.res])
  /\ UNCHANGED <<hasher, pc, input, encoded, decoded, calls, builder>>

NextValue ==
  /\ pc = "reading"
  /\ Len(log) < MaxCalls
  /\ LET r == Map_next_value_seed(reader, input.t.of)
     IN /\ reader' = r.self
        /\ log' = Append(log, [op |-> "next_value", res |-> r.res])
  /\ UNCHANGED <<hasher, pc, input, encoded, decoded, calls, builder>>

NextReader == NextKey \/ NextValue

SpecReader == InitReader /\ [][NextReader]_vars

\* ---------------------------------------------------------------------------
\* A Serialize implementation that drives an AttributeValueMapSerializer,
\* calling serialize_key, serialize_value and end in any order

BuilderKeyTypes ==
  {TString, TChar, TBool, TUnit, TInt("u8"), TSeq(TUnit),
   TEnum(<<UnitVariant(<<"U">>)>>), TChecked, TOption(TString)}

BuilderValueTypes == {TBool, TChecked, TMap(TBool, TBool)}

\* the keys drawn of each type: of the integers 0 and 255, of the sequences
\* the empty one and one of one element, of the strings those of KeysOf
BuilderKeysOf(t) ==
  CASE t.k = "int" -> {v \in IntSamples(t.ty) : v[1] \in {0, 255}}
    [] t.k = "seq" -> {v \in ValuesOf(t) : Len(v) <= 1}
    [] t.k = "option" -> {None} \cup {Some(x) : x \in KeysOf(t.of)}
    [] OTHER -> KeysOf(t)

\* the values drawn of each type: of the maps the empty one and one of one
\* entry
BuilderValuesOf(t) ==
  IF t.k = "map" THEN {v \in ValuesOf(t) : DOMAIN v \subseteq {TRUE}}
  ELSE ValuesOf(t)

InitBuilder ==
  /\ hasher \in Hashers
  /\ pc = "building"
  /\ input = [t |-> TMap(TAny, TAny), v |-> Unit]
  /\ encoded = None
  /\ decoded = None
  /\ calls = <<>>
  /\ reader = NoReader
  /\ builder = MapSerializer_default
  /\ log = <<>>

\* map.serialize_key(&key)
SerializeKey ==
  /\ pc = "building"
  /\ Len(log) < MaxOps
  /\ \E t \in BuilderKeyTypes : \E v \in BuilderKeysOf(t) :
       LET key == Serialize(t, v)
           r == Map_serialize_key(builder, key)
       IN /\ builder' = r.self
          /\ log' = Append(log, [op |-> "serialize_key", arg |-> key,
                                  res |-> r.res])
  /\ UNCHANGED <<hasher, pc, input, encoded, decoded, calls, reader>>

\* map.serialize_value(&value)
SerializeValue ==
  /\ pc = "building"
  /\ Len(log) < MaxOps
  /\ \E t \in BuilderValueTypes : \E v \in BuilderValuesOf(t) :
       LET value == Serialize(t, v)
           r == Map_serialize_value(builder, value)
       IN /\ builder' = r.self
          /\ log' = Append(log, [op |-> "serialize_value", arg |-> value,
                                  res |-> r.res])
  /\ UNCHANGED <<hasher, pc, input, encoded, decoded, calls, reader>>

\* map.end(), which consumes the serializer
End ==
  /\ pc = "building"
  /\ Len(log) < MaxOps
  /\ encoded' = Some(Map_end(builder))
  /\ log' = Append(log, [op |-> "end", arg |-> Ok(<<>>),
                          res |-> Map_end(builder)])
  /\ pc' = "ended"
  /\ UNCHANGED <<hasher, input, decoded, calls, reader, builder>>

NextBuilder == SerializeKey \/ SerializeValue \/ End

SpecBuilder == InitBuilder /\ [][NextBuilder]_vars

\* ---------------------------------------------------------------------------
\* Properties

Encoded == Unwrap(encoded)

Decoded == Unwrap(decoded)

\* the shapes the round-trip law names: bool, integer, char, string,
\* optional, sequence, tuple, string-keyed map, record, unit and variants
RECURSIVE RoundTripShape(_)
RoundTripShape(t) ==
  CASE t.k \in {"bool", "int", "char", "string", "unit"} -> TRUE
    [] t.k \in {"option", "seq"} -> RoundTripShape(t.of)
    [] t.k \in {"tuple", "struct"} ->
         \A i \in 1..Len(t.ts) : RoundTripShape(t.ts[i])
    [] t.k = "map" -> t.key.k = "string" /\ RoundTripShape(t.of)
    [] t.k = "enum" ->
         \A i \in 1..Len(t.variants) :
           LET variant == t.variants[i]
           IN CASE variant.vk = "unit" -> TRUE
                [] variant.vk = "newtype" -> RoundTripShape(variant.of)
                [] OTHER -> \A j \in 1..Len(variant.ts) :
                              RoundTripShape(variant.ts[j])
    [] OTHER -> FALSE

\* C1: for every value v of a supported shape, to_attribute_value(v)
\* succeeds and from_attribute_value of its result succeeds and returns a
\* value equal to v.
C1_RoundTrip ==
  RoundTripShape(input.t) =>
    /\ pc = "encoded" => Encoded.ok
    /\ pc = "decoded" => Decoded.ok /\ Decoded.val = input.v

\* C2, as claimed: to_attribute_value never returns an error, whatever the
\* kinds of the keys of the maps in the value.
C2_NeverFails == pc = "encoded" => Encoded.ok

\* a key that serializes to a string: a String or a char, possibly inside
\* Some or a newtype struct
RECURSIVE TextKey(_, _)
TextKey(t, v) ==
  CASE t.k \in {"string", "char"} -> TRUE
    [] t.k = "option" -> IsSome(v) /\ TextKey(t.of, Unwrap(v))
    [] t.k = "newtype_struct" -> TextKey(t.of, v)
    [] OTHER -> FALSE

ElementType(t, i) == IF t.k = "seq" THEN t.of ELSE t.ts[i]

\* every key of every map inside the value serializes to a string
RECURSIVE TextKeyed(_, _)
TextKeyed(t, v) ==
  CASE t.k = "option" -> IsSome(v) => TextKeyed(t.of, Unwrap(v))
    [] t.k = "newtype_struct" -> TextKeyed(t.of, v)
    [] t.k \in {"seq", "tuple", "tuple_struct", "struct"} ->
         \A i \in 1..Len(v) : TextKeyed(ElementType(t, i), v[i])
    [] t.k = "map" ->
         \A key \in DOMAIN v : TextKey(t.key, key) /\ TextKeyed(t.of, v[key])
    [] t.k = "enum" ->
         LET variant == t.variants[VariantIndex(v)]
         IN CASE variant.vk = "unit" -> TRUE
              [] variant.vk = "newtype" -> TextKeyed(variant.of, Payload(v))
              [] OTHER -> \A i \in 1..Len(variant.ts) :
                            TextKeyed(variant.ts[i], Payload(v)[i])
    [] OTHER -> TRUE

\* C2, amended: to_attribute_value returns an error exactly when some map in
\* the value has an entry whose key does not serialize to a string.
C2_FailsOnlyOnKeys == pc = "encoded" => (Encoded.ok <=> TextKeyed(input.t, input.v))

C2_Witness ==
  /\ pc = "encoded"
  /\ input.t.k = "map"
  /\ input.t.key.k = "int"
  /\ ~Encoded.ok
  /\ Encoded.err = "Key Must Be String"

Fields == {"bool", "n", "s", "b", "null", "l", "m"}

Populated(value) == {f \in Fields : IsSome(value[f])}

RECURSIVE WellFormed(_)
WellFormed(value) ==
  /\ Cardinality(Populated(value)) = 1
  /\ IsSome(value.null) => Unwrap(value.null) = TRUE
  /\ IsSome(value.l) =>
       \A i \in 1..Len(Unwrap(value.l)) : WellFormed(Unwrap(value.l)[i])
  /\ IsSome(value.m) =>
       \A key \in DOMAIN Unwrap(value.m) : WellFormed(Unwrap(value.m)[key])

\* C3: the AttributeValue a successful to_attribute_value returns, and every
\* AttributeValue nested in it, has exactly one field populated, and null is
\* true wherever it is populated.
C3_ExactlyOneField ==
  (pc \in {"encoded", "decoded"} /\ Encoded.ok) => WellFormed(Encoded.val)

C3_Witness ==
  /\ pc = "encoded"
  /\ Encoded.ok
  /\ IsSome(Encoded.val.l)
  /\ \E i \in 1..Len(Unwrap(Encoded.val.l)) :
       /\ IsSome(Unwrap(Encoded.val.l)[i].m)
       /\ \E key \in DOMAIN Unwrap(Unwrap(Encoded.val.l)[i].m) :
            IsSome(Unwrap(Unwrap(Encoded.val.l)[i].m)[key].null)

Pad(bytes, w) == [i \in 1..w |-> IF i <= Len(bytes) THEN bytes[i] ELSE 0]

\* the number an integer of type ty holds: its sign and its magnitude
Number(ty, bytes) ==
  LET neg == Signed(ty) /\ TopBit(bytes)
  IN [neg |-> neg, mag |-> Pad(IF neg THEN WrappingNeg(bytes) ELSE bytes, 8)]

\* the bytes that hold the number in type ty, if any do
Represent(ty, num) ==
  LET low == SubSeq(num.mag, 1, Width(ty))
  IN IF num.neg THEN WrappingNeg(low) ELSE low

Representable(ty, num) == Number(ty, Represent(ty, num)) = num

\* text is the decimal text of the number: a minus sign when negative, then
\* its digits without leading zeros
Denotes(text, num) ==
  LET digits == IF num.neg THEN Tail(text) ELSE text
  IN /\ Len(text) > 0
     /\ num.neg => text[1] = "-"
     /\ Len(digits) > 0
     /\ AllDigits(digits)
     /\ Len(digits) > 1 => digits[1] # "0"
     /\ Accumulate(digits, 1, [v |-> Zeros(8), overflow |-> FALSE])
          = [v |-> num.mag, overflow |-> FALSE]

\* C4: an integer serializes to n holding the decimal text of its number and
\* nothing else, the same AttributeValue whatever integer type holds it.
C4_IntegerByValue ==
  (pc = "encoded" /\ input.t.k = "int") =>
    LET num == Number(input.t.ty, input.v)
    IN /\ Encoded.ok
       /\ Populated(Encoded.val) = {"n"}
       /\ Denotes(Unwrap(Encoded.val.n), num)
       /\ \A ty \in IntTypes :
            Representable(ty, num) =>
              to_attribute_value(TInt(ty), Represent(ty, num)) = Encoded

C4_Witness ==
  /\ pc = "encoded"
  /\ input.t = TInt("i8")
  /\ Number("i8", input.v).neg
  /\ Representable("i64", Number("i8", input.v))
  /\ ~Representable("u8", Number("i8", input.v))

NullValue == [AttributeValue_default EXCEPT !.null = Some(TRUE)]

\* C5: Some(x) serializes to what x serializes to, and None to null = true,
\* which is what unit serializes to.
C5_OptionUnwrapped ==
  (pc = "encoded" /\ input.t.k = "option") =>
    IF IsSome(input.v)
    THEN Encoded = to_attribute_value(input.t.of, Unwrap(input.v))
    ELSE Encoded = Ok(NullValue) /\ Encoded = to_attribute_value(TUnit, Unit)

C5_Witness ==
  /\ pc = "encoded"
  /\ input.t = TOption(TBool)
  /\ input.v = Some(TRUE)
  /\ Encoded.ok
  /\ Populated(Encoded.val) = {"bool"}

ElementsSerialize(t, v) ==
  \A i \in 1..Len(v) : to_attribute_value(ElementType(t, i), v[i]).ok

\* C6: a sequence, tuple or tuple struct of k elements serializes to l alone,
\* a list of length k whose i-th element is what the i-th element serializes
\* to.
C6_ListInOrder ==
  (/\ pc = "encoded"
   /\ input.t.k \in {"seq", "tuple", "tuple_struct"}
   /\ ElementsSerialize(input.t, input.v)) =>
    /\ Encoded.ok
    /\ Populated(Encoded.val) = {"l"}
    /\ Len(Unwrap(Encoded.val.l)) = Len(input.v)
    /\ \A i \in 1..Len(input.v) :
         Unwrap(Encoded.val.l)[i]
           = to_attribute_value(ElementType(input.t, i), input.v[i]).val

C6_Witness ==
  /\ pc = "encoded"
  /\ input.t.k = "seq"
  /\ Len(input.v) = 2
  /\ input.v[1] # input.v[2]
  /\ Encoded.ok

\* C7: a struct serializes to m alone, with one entry per field, under the
\* field's name, holding what the field's value serializes to.
C7_RecordByFieldName ==
  (/\ pc = "encoded"
   /\ input.t.k = "struct"
   /\ ElementsSerialize(input.t, input.v)) =>
    /\ Encoded.ok
    /\ Populated(Encoded.val) = {"m"}
    /\ DOMAIN Unwrap(Encoded.val.m) = Range(input.t.fields)
    /\ \A i \in 1..Len(input.t.fields) :
         Unwrap(Encoded.val.m)[input.t.fields[i]]
           = to_attribute_value(input.t.ts[i], input.v[i]).val

C7_Witness ==
  /\ pc = "encoded"
  /\ input.t = TTest
  /\ Len(input.v[1]) > 0
  /\ Encoded.ok

\* what the payload of a variant serializes to
PayloadValue(variant, payload) ==
  CASE variant.vk = "unit" -> NullValue
    [] variant.vk = "newtype" -> to_attribute_value(variant.of, payload).val
    [] variant.vk = "tuple" ->
         [AttributeValue_default EXCEPT
            !.l = Some([i \in 1..Len(payload) |->
                          to_attribute_value(variant.ts[i], payload[i]).val])]
    [] variant.vk = "struct" ->
         [AttributeValue_default EXCEPT
            !.m = Some([f \in Range(variant.fields) |->
                          LET i == CHOOSE i \in 1..Len(variant.fields) :
                                     variant.fields[i] = f
                          IN to_attribute_value(variant.ts[i], payload[i]).val])]

\* C8: a variant of any kind serializes to m alone, with one entry, under the
\* variant's name: null = true for a unit variant, the payload for a newtype
\* variant, the list of the payloads for a tuple variant, the map of the
\* fields for a struct variant.
C8_VariantSingleEntry ==
  (pc = "encoded" /\ input.t.k = "enum") =>
    LET variant == input.t.variants[VariantIndex(input.v)]
    IN /\ Encoded.ok
       /\ Populated(Encoded.val) = {"m"}
       /\ DOMAIN Unwrap(Encoded.val.m) = {variant.name}
       /\ Unwrap(Encoded.val.m)[variant.name]
            = PayloadValue(variant, Payload(input.v))

C8_Witness ==
  /\ pc = "encoded"
  /\ input.t = TVariants
  /\ input.t.variants[VariantIndex(input.v)].vk = "struct"
  /\ Encoded.ok

Precedence == <<"bool", "l", "m", "n", "null", "s">>

Dispatched(value) == Populated(value) \cap Range(Precedence)

\* the first populated field in the order of precedence
FirstPopulated(value) ==
  Precedence[CHOOSE i \in 1..Len(Precedence) :
               /\ IsSome(value[Precedence[i]])
               /\ \A j \in 1..(i - 1) : ~IsSome(value[Precedence[j]])]

CallbacksOf(field) ==
  CASE field = "bool" -> {"visit_bool"}
    [] field = "l" -> {"visit_seq"}
    [] field = "m" -> {"visit_map"}
    [] field = "n" -> {"visit_i64", "visit_f64"}
    [] field = "null" -> {"visit_unit"}
    [] field = "s" -> {"visit_borrowed_str"}

Given == Unwrap(encoded).val

FailsWith(res, message) == ~res.ok /\ res.err = message

\* C9, as claimed: deserialize_any of any AttributeValue invokes exactly one
\* callback, that of the first populated field in the order bool, l, m, n,
\* null, s; when none of the six is populated it invokes none and fails with
\* `Supported Value Expected`.
C9_OneCallbackByPrecedence ==
  pc = "dispatched" =>
    IF Dispatched(Given) # {}
    THEN Len(calls) = 1 /\ calls[1].cb \in CallbacksOf(FirstPopulated(Given))
    ELSE calls = <<>> /\ FailsWith(Decoded, "Supported Value Expected")

NotNumeric(text) == ~parse_i64(text).ok /\ ~parse_f64(text).ok

\* C9, amended: as claimed, except that when the first populated field is n
\* and its text parses neither as an i64 nor as an f64, deserialize_any
\* invokes no callback and fails with `Numeric Value Expected`.
C9_OneCallbackOrNumericError ==
  pc = "dispatched" =>
    IF Dispatched(Given) = {}
    THEN calls = <<>> /\ FailsWith(Decoded, "Supported Value Expected")
    ELSE IF FirstPopulated(Given) = "n" /\ NotNumeric(Unwrap(Given.n))
    THEN calls = <<>> /\ FailsWith(Decoded, "Numeric Value Expected")
    ELSE /\ Len(calls) = 1
         /\ calls[1].cb \in CallbacksOf(FirstPopulated(Given))
         /\ FirstPopulated(Given) \in {"bool", "l", "m", "s"} =>
              calls[1].arg = Unwrap(Given[FirstPopulated(Given)])

C9_Witness ==
  /\ pc = "dispatched"
  /\ {"l", "n", "s"} \subseteq Populated(Given)
  /\ ~IsSome(Given.bool)
  /\ NotNumeric(Unwrap(Given.n))
  /\ Len(calls) = 1
  /\ calls[1].cb = "visit_seq"

ValueCalls(i) == Cardinality({j \in 1..i : log[j].op = "next_value"})

KeysReturned(i) ==
  Cardinality({j \in 1..i : /\ log[j].op = "next_key"
                            /\ log[j].res.ok
                            /\ IsSome(log[j].res.val)})

\* C10: a next_value call fails with `Value Expected` whenever the number of
\* next_value calls made so far, this one included, exceeds the number of
\* next_key calls that returned a key.
C10_ValueNeedsKey ==
  \A i \in 1..Len(log) :
    (log[i].op = "next_value" /\ ValueCalls(i) > KeysReturned(i)) =>
      FailsWith(log[i].res, "Value Expected")

\* ---------------------------------------------------------------------------
\* The map builder

KeyCalls == {i \in 1..Len(log) : log[i].op = "serialize_key"}

\* the key's encoding has S populated
EncodesToText(key) == key.ok /\ IsSome(key.val.s)

\* C11: on the map builder, serialize_key of a key whose encoding has S
\* populated is accepted, and the text becomes the pending key; serialize_key
\* of any other key (its encoding has another field populated, or it has no
\* encoding) fails with `Key Must Be String`.
C11_KeyMustBeString ==
  /\ \A i \in KeyCalls :
       IF EncodesToText(log[i].arg) THEN log[i].res.ok
       ELSE FailsWith(log[i].res, "Key Must Be String")
  /\ (Len(log) > 0 /\ log[Len(log)].op = "serialize_key"
        /\ log[Len(log)].res.ok) =>
       builder.key = log[Len(log)].arg.val.s

C11_Witness ==
  \E i, j, k \in KeyCalls :
    /\ log[i].arg.ok /\ IsSome(log[i].arg.val.n) /\ ~log[i].res.ok
    /\ log[j].arg.ok /\ IsSome(log[j].arg.val.null) /\ ~log[j].res.ok
    /\ k = Len(log) /\ log[k].res.ok /\ builder.key = Some(<<"a">>)

\* the accepted serialize_key calls that were followed by another call
KeysFollowed ==
  {i \in KeyCalls : log[i].res.ok /\ i < Len(log)}

\* C12: when an accepted serialize_key is followed by end, or by another
\* serialize_key (of a key that is itself a string), and not by
\* serialize_value, that next call fails with
\* `Key Must Be Set and Value Must Be Serializable`.
C12_KeyNeedsValue ==
  \A i \in KeysFollowed :
    (\/ log[i + 1].op = "end"
     \/ log[i + 1].op = "serialize_key" /\ EncodesToText(log[i + 1].arg)) =>
      FailsWith(log[i + 1].res,
                "Key Must Be Set and Value Must Be Serializable")

\* ---------------------------------------------------------------------------
\* Decoding an AttributeValue from anywhere

\* what visit_some makes of the inner value's result
Present(inner) == IF inner.ok THEN Ok(Some(inner.val)) ELSE inner

\* C13: decoding an Option yields None exactly when null is populated and
\* true; for every other AttributeValue (null false, nothing populated,
\* anything else populated) the visitor is given Some, and the inner value is
\* decoded from the same AttributeValue.
C13_OptionalDecode ==
  (pc = "read" /\ input.t.k = "option") =>
    /\ Len(calls) = 1
    /\ IF IsSome(Given.null) /\ Unwrap(Given.null) = TRUE
       THEN calls[1].cb = "visit_none" /\ Decoded.ok /\ Decoded.val = None
       ELSE /\ calls[1].cb = "visit_some"
            /\ calls[1].arg = Given
            /\ Decoded = Present(from_attribute_value(input.t.of, Given))

C13_Witness ==
  /\ pc = "read"
  /\ input.t = TOption(TOption(TBool))
  /\ Given.null = Some(FALSE)
  /\ Given.bool = Some(TRUE)
  /\ calls[1].cb = "visit_some"
  /\ Decoded.ok /\ Decoded.val = Some(Some(TRUE))

\* the variant of the enum that the tag names, or 0
VariantNamed(t, tag) ==
  IF \E i \in 1..Len(t.variants) : t.variants[i].name = tag
  THEN CHOOSE i \in 1..Len(t.variants) : t.variants[i].name = tag
  ELSE 0

InVariant(idx, r) == IF r.ok THEN Ok(EnumValue(idx, r.val)) ELSE r

OnlyList(payload) == [AttributeValue_default EXCEPT !.l = payload.l]

OnlyMap(payload) == [AttributeValue_default EXCEPT !.m = payload.m]

\* C14: decoding an enum fails when m is not populated or is empty;
\* otherwise the first key of the map is the tag, handed over as a string,
\* and the value under it is the payload: a unit variant decodes only from a
\* payload whose null is true, else `Null Value Expected`; a newtype variant
\* decodes its content from the payload itself; a tuple variant needs the
\* payload's l and decodes its elements by position; a struct variant needs
\* the payload's m and decodes its entries by name.
C14_VariantDecode ==
  (pc = "read" /\ input.t.k = "enum") =>
    IF ~IsSome(Given.m) \/ Unwrap(Given.m) = EmptyMap
    THEN Len(calls) = 0 /\ ~Decoded.ok
    ELSE LET m == Unwrap(Given.m)
             tag == Iter(m)[1]
             payload == m[tag]
             idx == VariantNamed(input.t, tag)
             variant == input.t.variants[idx]
         IN /\ Len(calls) = 1
            /\ calls[1].cb = "visit_enum"
            /\ calls[1].arg = [key |-> tag, value |-> payload]
            /\ key_deserialize_any(tag).val = [cb |-> "visit_string", arg |-> tag]
            /\ idx = 0 => ~Decoded.ok
            /\ (idx # 0 /\ variant.vk = "unit") =>
                 IF IsSome(payload.null) /\ Unwrap(payload.null) = TRUE
                 THEN Decoded.ok /\ Decoded.val = EnumValue(idx, Unit)
                 ELSE FailsWith(Decoded, "Null Value Expected")
            /\ (idx # 0 /\ variant.vk = "newtype") =>
                 Decoded = InVariant(idx, from_attribute_value(variant.of, payload))
            /\ (idx # 0 /\ variant.vk = "tuple") =>
                 IF IsSome(payload.l)
                 THEN Decoded = InVariant(idx,
                        from_attribute_value(TTuple(variant.ts), OnlyList(payload)))
                 ELSE ~Decoded.ok
            /\ (idx # 0 /\ variant.vk = "struct") =>
                 IF IsSome(payload.m)
                 THEN Decoded = InVariant(idx,
                        from_attribute_value(TStruct(variant.fields, variant.ts),
                                             OnlyMap(payload)))
                 ELSE ~Decoded.ok

C14_Witness ==
  /\ pc = "read"
  /\ input.t.k = "enum"
  /\ IsSome(Given.m)
  /\ DOMAIN Unwrap(Given.m) = {<<"T">>, <<"U">>}
  /\ Unwrap(Given.m)[<<"U">>].null = Some(FALSE)
  /\ Decoded.ok
  /\ Decoded.val = EnumValue(3, <<TRUE, "a">>)

\* ---------------------------------------------------------------------------
\* Errors raised inside a walk

Child(t, v, role) == [t |-> t, v |-> v, role |-> role]

\* the nested values to_attribute_value serializes for a value of type t, in
\* the order it reaches them
EncodeChildren(t, v) ==
  CASE t.k = "option" ->
         IF IsSome(v) THEN <<Child(t.of, Unwrap(v), "inner")>> ELSE <<>>
    [] t.k = "newtype_struct" -> <<Child(t.of, v, "inner")>>
    [] t.k \in {"seq", "tuple", "tuple_struct"} ->
         [i \in 1..Len(v) |-> Child(ElementType(t, i), v[i], "element")]
    [] t.k = "struct" -> [i \in 1..Len(v) |-> Child(t.ts[i], v[i], "field")]
    [] t.k = "map" ->
         LET order == Iter(v)
         IN [i \in 1..(2 * Len(order)) |->
               IF i % 2 = 1 THEN Child(t.key, order[(i + 1) \div 2], "key")
               ELSE Child(t.of, v[order[i \div 2]], "value")]
    [] t.k = "enum" ->
         LET variant == t.variants[VariantIndex(v)]
         IN CASE variant.vk = "unit" -> <<>>
              [] variant.vk = "newtype" ->
                   <<Child(variant.of, Payload(v), "payload")>>
              [] OTHER ->
                   [i \in 1..Len(variant.ts) |->
                      Child(variant.ts[i], Payload(v)[i], "payload")]
    [] OTHER -> <<>>

EncodeOf(c) == to_attribute_value(c.t, c.v)

\* serializing the nested value stops the walk: it raises an error, or it is
\* a map key that is no string
EncodeStops(c) ==
  ~EncodeOf(c).ok \/ (c.role = "key" /\ ~IsSome(EncodeOf(c).val.s))

\* the position of the first element of cs that Stops, or 0
FirstStop(cs, Stops(_)) ==
  IF \E i \in 1..Len(cs) : Stops(cs[i])
  THEN CHOOSE i \in 1..Len(cs) :
         Stops(cs[i]) /\ \A j \in 1..(i - 1) : ~Stops(cs[j])
  ELSE 0

\* the elements of list l that are read as the types ts
ListChildren(ts, l, role) ==
  [i \in 1..(IF Len(l) < Len(ts) THEN Len(l) ELSE Len(ts)) |->
     Child(ts[i], l[i], role)]

\* the values of map m read as the fields they are named after
FieldChildren(fields, ts, m, role) ==
  LET order == Iter(m)
  IN [i \in 1..Len(order) |->
        LET f == visit_str(TField(fields), order[i]).val
        IN Child(IF f = 0 THEN TIgnoredAny ELSE ts[f], m[order[i]], role)]

\* the nested values from_attribute_value deserializes when it reads value w
\* as type t, in the order it reaches them
DecodeChildren(t, w) ==
  CASE t.k = "option" ->
         IF w.null = Some(TRUE) THEN <<>> ELSE <<Child(t.of, w, "inner")>>
    [] t.k = "newtype_struct" -> <<Child(t.of, w, "inner")>>
    [] t.k = "seq" /\ Populated(w) = {"l"} ->
         [i \in 1..Len(Unwrap(w.l)) |-> Child(t.of, Unwrap(w.l)[i], "element")]
    [] t.k \in {"tuple", "tuple_struct"} /\ Populated(w) = {"l"} ->
         ListChildren(t.ts, Unwrap(w.l), "element")
    [] t.k = "struct" /\ Populated(w) = {"m"} ->
         FieldChildren(t.fields, t.ts, Unwrap(w.m), "field")
    [] t.k = "map" /\ Populated(w) = {"m"} ->
         LET m == Unwrap(w.m)
             order == Iter(m)
         IN [i \in 1..(2 * Len(order)) |->
               IF i % 2 = 1 THEN Child(t.key, order[(i + 1) \div 2], "key")
               ELSE Child(t.of, m[order[i \div 2]], "value")]
    [] t.k = "enum" /\ Populated(w) = {"m"} /\ Unwrap(w.m) # EmptyMap ->
         LET tag == Iter(Unwrap(w.m))[1]
             payload == Unwrap(w.m)[tag]
             idx == VariantNamed(t, tag)
             variant == t.variants[idx]
         IN IF idx = 0 THEN <<>>
            ELSE CASE variant.vk = "newtype" ->
                        <<Child(variant.of, payload, "payload")>>
                   [] variant.vk = "tuple" /\ IsSome(payload.l) ->
                        ListChildren(variant.ts, Unwrap(payload.l), "payload")
                   [] variant.vk = "struct" /\ IsSome(payload.m) ->
                        FieldChildren(variant.fields, variant.ts,
                                      Unwrap(payload.m), "payload")
                   [] OTHER -> <<>>
    [] OTHER -> <<>>

\* a map key is read from its text, every other nested value from its
\* AttributeValue
DecodeOf(c) ==
  IF c.role = "key" THEN visit_str(c.t, c.v)
  ELSE from_attribute_value(c.t, c.v)

DecodeStops(c) == ~DecodeOf(c).ok

\* the nested values of the value serialized, and of what it is read back as
EncodeWalk == EncodeChildren(input.t, input.v)

DecodeWalk == DecodeChildren(input.as, Encoded.val)

\* decoding: the first error raised for a nested value is the one returned
DecodeErrorsReturned ==
  pc = "decoded" =>
    LET i == FirstStop(DecodeWalk, DecodeStops)
    IN i # 0 => Decoded = DecodeOf(DecodeWalk[i])

\* C15, as claimed: the first error raised while serializing or
\* deserializing a nested value (element, key, value, field, payload) ends
\* the walk, and the top-level call returns that error, message unchanged.
C15_ErrorsUnchanged ==
  /\ pc = "encoded" =>
       LET i == FirstStop(EncodeWalk, EncodeStops)
       IN (i # 0 /\ ~EncodeOf(EncodeWalk[i]).ok) =>
            Encoded = EncodeOf(EncodeWalk[i])
  /\ DecodeErrorsReturned

\* what the map serializer makes of the error of a key or a value
Replaced(role, error) ==
  CASE role = "key" -> Error_new("Key Must Be String")
    [] role = "value" ->
         Error_new("Key Must Be Set and Value Must Be Serializable")
    [] OTHER -> error

\* C15, amended: the first error raised for a nested value ends the walk and
\* the top-level call returns an error: that error itself, except that the
\* map serializer answers `Key Must Be String` for an error raised by a key
\* and `Key Must Be Set and Value Must Be Serializable` for one raised by a
\* value.
C15_ErrorsReplacedInMaps ==
  /\ pc = "encoded" =>
       LET i == FirstStop(EncodeWalk, EncodeStops)
       IN (i # 0 /\ ~EncodeOf(EncodeWalk[i]).ok) =>
            Encoded = Replaced(EncodeWalk[i].role, EncodeOf(EncodeWalk[i]))
  /\ DecodeErrorsReturned

C15_Witness ==
  /\ pc = "encoded"
  /\ input.t = TTuple(<<TMap(TBool, TBool), TChecked>>)
  /\ Len(EncodeWalk) = 2
  /\ FailsWith(EncodeOf(EncodeWalk[1]), "Key Must Be String")
  /\ FailsWith(EncodeOf(EncodeWalk[2]), "rejected: b")
  /\ FailsWith(Encoded, "Key Must Be String")

\* C16: decoding a char needs s: it yields the first character of s whatever
\* the length of s from 1 up, fails with `Non-Zero Length String Expected`
\* when s is empty, and fails when s is not populated.
C16_CharDecode ==
  (pc = "read" /\ input.t.k = "char") =>
    IF IsSome(Given.s)
    THEN IF Len(Unwrap(Given.s)) >= 1
         THEN /\ calls = <<[cb |-> "visit_char", arg |-> Unwrap(Given.s)[1]]>>
              /\ Decoded.ok
              /\ Decoded.val = Unwrap(Given.s)[1]
         ELSE /\ calls = <<>>
              /\ FailsWith(Decoded, "Non-Zero Length String Expected")
    ELSE calls = <<>> /\ ~Decoded.ok

C16_Witness ==
  /\ pc = "read"
  /\ input.t.k = "char"
  /\ Given.s = Some(<<"b", "a">>)
  /\ IsSome(Given.bool)
  /\ Decoded.ok
  /\ Decoded.val = "b"

\* i64::MAX and i64::MIN as texts
MaxText ==
  <<"9", "2", "2", "3", "3", "7", "2", "0", "3", "6", "8", "5", "4", "7", "7", "5", "8", "0", "7">>

MinText ==
  <<"-", "9", "2", "2", "3", "3", "7", "2", "0", "3", "6", "8", "5", "4", "7", "7", "5", "8", "0", "8">>

\* integers just beyond i64::MAX and i64::MIN, and u64::MAX
BeyondTexts ==
  {<<"9", "2", "2", "3", "3", "7", "2", "0", "3", "6", "8", "5", "4", "7", "7", "5", "8", "0", "8">>,
   <<"-", "9", "2", "2", "3", "3", "7", "2", "0", "3", "6", "8", "5", "4", "7", "7", "5", "8", "0", "9">>,
   <<"1", "8", "4", "4", "6", "7", "4", "4", "0", "7", "3", "7", "0", "9", "5", "5", "1", "6", "1", "5">>}

\* C17: when n is the field deserialize_any reaches, the visitor is given an
\* i64 whenever the text parses as one, else an f64 when it parses as one,
\* else nothing and the call fails with `Numeric Value Expected`, whatever
\* numeric type is asked for: i64::MAX and i64::MIN arrive as integers, and
\* integer text beyond them arrives as a float, never as an integer.
C17_NumericDecode ==
  (pc = "read" /\ input.t.k \in {"int", "any"} /\ ~IsSome(Given.bool)) =>
    LET text == Unwrap(Given.n)
        i == parse_i64(text)
        f == parse_f64(text)
    IN /\ IF i.ok THEN calls = <<[cb |-> "visit_i64", arg |-> i.val]>>
          ELSE IF f.ok THEN calls = <<[cb |-> "visit_f64", arg |-> f.val]>>
          ELSE calls = <<>> /\ FailsWith(Decoded, "Numeric Value Expected")
       /\ text = MaxText =>
            calls[1] = [cb |-> "visit_i64",
                        arg |-> [j \in 1..8 |-> IF j = 8 THEN 127 ELSE 255]]
       /\ text = MinText =>
            calls[1] = [cb |-> "visit_i64", arg |-> MinMagnitude]
       /\ text \in BeyondTexts =>
            /\ calls[1].cb = "visit_f64"
            /\ input.t.k = "int" => ~Decoded.ok
       /\ (input.t.k = "int" /\ Decoded.ok) =>
            i.ok /\ Decoded.val = SubSeq(i.val, 1, Width(input.t.ty))

C17_Witness ==
  /\ pc = "read"
  /\ input.t = TInt("u64")
  /\ ~IsSome(Given.bool)
  /\ Given.n = Some(<<"1", "8", "4", "4", "6", "7", "4", "4", "0", "7", "3", "7", "0", "9", "5", "5", "1", "6", "1", "5">>)
  /\ Len(calls) = 1
  /\ calls[1].cb = "visit_f64"
  /\ ~Decoded.ok

\* ---------------------------------------------------------------------------
\* The map reader

\* the map the reader was made over
ReaderMap == Unwrap(Encoded.val.m)

\* next_key and next_value were called in turn, next_key first
Alternating ==
  \A i \in 1..Len(log) :
    log[i].op = (IF i % 2 = 1 THEN "next_key" ELSE "next_value")

\* C18: when next_key and next_value are called in turn on a reader over a
\* map of n entries, each of the first n next_key calls delivers a key of
\* the map that was not delivered before, the next_value call after it
\* delivers the value the map holds under that key, and the next_key call
\* after the n-th entry delivers the end of the map.
C18_ReaderAligned ==
  (pc = "reading" /\ Alternating) =>
    LET n == Cardinality(DOMAIN ReaderMap)
    IN \A i \in 1..Len(log) :
         IF i % 2 = 1
         THEN IF (i + 1) \div 2 <= n
              THEN /\ log[i].res.ok
                   /\ IsSome(log[i].res.val)
                   /\ Unwrap(log[i].res.val) \in DOMAIN ReaderMap
                   /\ \A j \in 1..(i - 1) :
                        j % 2 = 1 => log[j].res.val # log[i].res.val
              ELSE log[i].res.ok /\ log[i].res.val = None
         ELSE i \div 2 <= n =>
                log[i].res =
                  from_attribute_value(input.t.of,
                                       ReaderMap[Unwrap(log[i - 1].res.val)])

C18_Witness ==
  /\ pc = "reading"
  /\ Alternating
  /\ Len(log) = 5
  /\ DOMAIN ReaderMap = {<<"a">>, <<"c">>}
  /\ ReaderMap[<<"a">>] # ReaderMap[<<"c">>]
  /\ log[4].res.ok
  /\ log[5].res.ok /\ log[5].res.val = None

\* ---------------------------------------------------------------------------
\* The map builder, when a call fails

\* no serialize_key was accepted before call i
NoKeyBefore(i) == \A j \in 1..(i - 1) : j \notin KeyCalls \/ ~log[j].res.ok

ValueWithoutKey ==
  \A i \in 1..Len(log) :
    (log[i].op = "serialize_value" /\ NoKeyBefore(i)) =>
      FailsWith(log[i].res, "Key Must Be Set and Value Must Be Serializable")

\* a serialize_key or serialize_value call that fails leaves the entries and
\* the pending key as they were
FailureKeepsBuilder ==
  (/\ Len(log') = Len(log) + 1
   /\ log'[Len(log')].op \in {"serialize_key", "serialize_value"}
   /\ ~log'[Len(log')].res.ok) =>
     /\ builder'.values = builder.values
     /\ builder'.key = builder.key

\* C19: on the map builder, serialize_value fails with `Key Must Be Set and
\* Value Must Be Serializable` while no serialize_key has been accepted, and
\* every serialize_key or serialize_value that fails leaves the entries and
\* the pending key of the builder unchanged.
C19_FailureLeavesBuilder == [][FailureKeepsBuilder /\ ValueWithoutKey']_vars

C19_Witness ==
  /\ pc = "building"
  /\ Len(log) = 3
  /\ log[1].op = "serialize_value" /\ log[1].arg.ok /\ ~log[1].res.ok
  /\ log[2].op = "serialize_key" /\ log[2].res.ok
  /\ log[3].op = "serialize_value" /\ ~log[3].arg.ok /\ ~log[3].res.ok
  /\ builder.key = log[2].arg.val.s
  /\ builder.values = EmptyMap

\* ---------------------------------------------------------------------------
\* Options of values that encode as null

\* Some(()) of Option<()> and Some(None) of Option<Option<T>>
SomeOfNull ==
  /\ input.t.k = "option"
  /\ IsSome(input.v)
  /\ \/ input.t.of.k = "unit"
     \/ input.t.of.k = "option" /\ Unwrap(input.v) = None

\* C20: Some(()) and Some(None) serialize to null true alone, and that
\* AttributeValue deserializes as the same Option type to None, which is not
\* the value that was serialized.
C20_SomeOfNullCollapses ==
  (pc \in {"encoded", "decoded"} /\ SomeOfNull) =>
    /\ Encoded.ok
    /\ Encoded.val = NullValue
    /\ pc = "decoded" =>
         Decoded.ok /\ Decoded.val = None /\ Decoded.val # input.v

C20_Witness ==
  /\ pc = "decoded"
  /\ input.t = TOption(TOption(TBool))
  /\ input.v = Some(None)
  /\ Encoded.val = NullValue
  /\ Decoded.ok
  /\ Decoded.val = None

====
